---- MODULE Spec2Model ----
(***************************************************************************)
(* The task manager.  First and for the most part its calendar scheduler  *)
(* (backend/app/apis/scheduler/__init__.py): the event store, the         *)
(* create/update/delete handlers, the conflict checker is_conflicting and *)
(* the slot finder get_available_slots with its wrapper                   *)
(* suggest_alternative_times.  Then the task server (backend/server.py)   *)
(* with its GET, POST, PUT and DELETE handlers over the list `tasks`, and *)
(* the mail scanner's process_meeting_requests                            *)
(* (backend/app/apis/gmail_scanner/__init__.py).  The three share no      *)
(* state; each has its own specification.                                 *)
(*                                                                         *)
(* Time.  An ISO timestamp string is a record [day, hh, mm]: the ordinal  *)
(* of its date and its time of day.  datetime.fromisoformat turns it into *)
(* a datetime, modelled as the number of minutes since ordinal 0; a       *)
(* string whose fields are out of range ("2025-04-15T25:00:00") does not  *)
(* parse.  A YYYY-MM-DD date string is the ordinal of its date; ordinal 0 *)
(* is no date (Python's ordinals start at 1).                             *)
(***************************************************************************)
EXTENDS Integers, Sequences, FiniteSets, TLC

VARIABLES
    store,   \* the "calendar_events" list held by db.storage.json
    last,    \* the request handled last and the response it got
    procs,   \* the concurrent create_event requests: position and locals
    tasks,   \* server.py: the module-level list `tasks`
    tasks_file,        \* server.py: what tasks.json holds
    issued,            \* server.py: the ids the POST responses have carried
    meeting_requests,  \* the "meeting_requests" list held by db.storage.json
    clock              \* gmail_scanner: what datetime.now() reads

\* the state of the task server and of the mail scanner, which the
\* scheduler never touches
elsewhere == <<tasks, tasks_file, issued, meeting_requests, clock>>

vars == <<store, last, procs, elsewhere>>

(***************************************************************************)
(* Program constants.                                                      *)
(***************************************************************************)
BusinessStartHour == 9
BusinessEndHour == 17
TopSuggestions == 3

(***************************************************************************)
(* Bounds of the model.                                                    *)
(***************************************************************************)
MaxEvents == 2

(***************************************************************************)
(* datetime                                                                *)
(***************************************************************************)
Iso(day, hh, mm) == [day |-> day, hh |-> hh, mm |-> mm]

\* datetime.fromisoformat succeeds on s
Parsable(s) == s.day >= 1 /\ s.hh \in 0..23 /\ s.mm \in 0..59

\* datetime.fromisoformat(s), for a parsable s
fromisoformat(s) == (s.day * 24 + s.hh) * 60 + s.mm

\* datetime.isoformat()
isoformat(t) == [day |-> t \div (24 * 60), hh |-> (t % (24 * 60)) \div 60, mm |-> t % 60]

\* datetime.date()
DateOf(t) == t \div (24 * 60)

\* datetime.strptime(date, "%Y-%m-%d") succeeds
ValidDate(date) == date >= 1

\* datetime.combine(target_date, datetime.min.time().replace(hour=h))
Combine(target_date, h) == (target_date * 24 + h) * 60

(***************************************************************************)
(* CalendarEvent, TimeSlot                                                 *)
(***************************************************************************)
CalendarEvent(id, start_time, end_time, status) ==
    [id |-> id, start_time |-> start_time, end_time |-> end_time, status |-> status]

TimeSlot(start, end) == [start |-> isoformat(start), end |-> isoformat(end)]

(***************************************************************************)
(* is_conflicting                                                          *)
(***************************************************************************)
Raised == [raised |-> TRUE, value |-> FALSE]
Returned(v) == [raised |-> FALSE, value |-> v]

\* the overlap test with the comparisons not strict
Overlap_closed(event_start, event_end, other_start, other_end) ==
    event_start <= other_end /\ event_end >= other_start

\* the overlap test of line 121
Overlap(event_start, event_end, other_start, other_end) ==
    event_start < other_end /\ event_end > other_start

\* the loop of lines 112-124 from position i on
RECURSIVE ScanOthers(_, _, _, _)
ScanOthers(event_start, event_end, other_events, i) ==
    IF i > Len(other_events) THEN Returned(FALSE)
    ELSE LET other == other_events[i] IN
         IF other.status = "cancelled"
         THEN ScanOthers(event_start, event_end, other_events, i + 1)
         ELSE IF ~Parsable(other.start_time) \/ ~Parsable(other.end_time)
         THEN Raised
         ELSE IF Overlap(event_start, event_end,
                         fromisoformat(other.start_time), fromisoformat(other.end_time))
         THEN Returned(TRUE)
         ELSE ScanOthers(event_start, event_end, other_events, i + 1)

is_conflicting(event, other_events) ==
    IF ~Parsable(event.start_time) \/ ~Parsable(event.end_time)
    THEN Raised
    ELSE ScanOthers(fromisoformat(event.start_time), fromisoformat(event.end_time),
                    other_events, 1)

(***************************************************************************)
(* get_available_slots                                                     *)
(***************************************************************************)
\* the filter without its test for cancelled events
RECURSIVE DayEvents_keepCancelled(_, _, _)
DayEvents_keepCancelled(all_events, target_date, i) ==
    IF i > Len(all_events) THEN <<>>
    ELSE LET event == all_events[i]
             event_start == fromisoformat(event.start_time)
             event_end == fromisoformat(event.end_time)
         IN  IF \/ DateOf(event_start) # target_date
                \/ DateOf(event_end) # target_date
             THEN DayEvents_keepCancelled(all_events, target_date, i + 1)
             ELSE <<[start |-> event_start, end |-> event_end]>>
                      \o DayEvents_keepCancelled(all_events, target_date, i + 1)

\* the filter with the date test on the event's start only
RECURSIVE DayEvents_startOnly(_, _, _)
DayEvents_startOnly(all_events, target_date, i) ==
    IF i > Len(all_events) THEN <<>>
    ELSE LET event == all_events[i]
             event_start == fromisoformat(event.start_time)
             event_end == fromisoformat(event.end_time)
         IN  IF \/ DateOf(event_start) # target_date
                \/ event.status = "cancelled"
             THEN DayEvents_startOnly(all_events, target_date, i + 1)
             ELSE <<[start |-> event_start, end |-> event_end]>>
                      \o DayEvents_startOnly(all_events, target_date, i + 1)

\* lines 142-155: the events of the target date, in store order
RECURSIVE DayEvents(_, _, _)
DayEvents(all_events, target_date, i) ==
    IF i > Len(all_events) THEN <<>>
    ELSE LET event == all_events[i]
             event_start == fromisoformat(event.start_time)
             event_end == fromisoformat(event.end_time)
         IN  IF \/ DateOf(event_start) # target_date
                \/ DateOf(event_end) # target_date
                \/ event.status = "cancelled"
             THEN DayEvents(all_events, target_date, i + 1)
             ELSE <<[start |-> event_start, end |-> event_end]>>
                      \o DayEvents(all_events, target_date, i + 1)

\* no sort: the events of the day in store order
SortByStart_asStored(day_events) == day_events

\* list.sort(key=start) is stable: x goes after every element whose start is
\* not greater than its own
RECURSIVE InsertByStart(_, _)
InsertByStart(sorted, x) ==
    IF sorted = <<>> THEN <<x>>
    ELSE IF x.start < Head(sorted).start THEN <<x>> \o sorted
    ELSE <<Head(sorted)>> \o InsertByStart(Tail(sorted), x)

RECURSIVE SortByStart(_)
SortByStart(day_events) ==
    IF day_events = <<>> THEN <<>>
    ELSE InsertByStart(SortByStart(SubSeq(day_events, 1, Len(day_events) - 1)),
                       day_events[Len(day_events)])

\* the loop with `<` for `<=`: a slot that ends at the limit is dropped
RECURSIVE EmitSlots_strict(_, _, _)
EmitSlots_strict(current_time, slot_duration, limit) ==
    IF current_time + slot_duration < limit
    THEN <<TimeSlot(current_time, current_time + slot_duration)>>
             \o EmitSlots_strict(current_time + slot_duration, slot_duration, limit)
    ELSE <<>>

\* the loop with the test on the slot's start only: the last slot of a walk
\* may end after the limit
RECURSIVE EmitSlots_overrun(_, _, _)
EmitSlots_overrun(current_time, slot_duration, limit) ==
    IF current_time < limit
    THEN <<TimeSlot(current_time, current_time + slot_duration)>>
             \o EmitSlots_overrun(current_time + slot_duration, slot_duration, limit)
    ELSE <<>>

\* one slot-emitting while loop (lines 173-179, 184-190, 197-203, 207-213);
\* evaluated only where the loop ends (see Runaway)
RECURSIVE EmitSlots(_, _, _)
EmitSlots(current_time, slot_duration, limit) ==
    IF current_time + slot_duration <= limit
    THEN <<TimeSlot(current_time, current_time + slot_duration)>>
             \o EmitSlots(current_time + slot_duration, slot_duration, limit)
    ELSE <<>>

\* the loop without `current_time += slot_duration`: its condition, once
\* true, stays true for every duration
Runaway_noAdvance(current_time, slot_duration, limit) ==
    current_time + slot_duration <= limit

\* With slot_duration <= 0 the loop's condition, once true, stays true:
\* current_time never grows, so the loop is never left by its condition (it
\* appends to free_slots until memory or the datetime range runs out).
Runaway(current_time, slot_duration, limit) ==
    slot_duration <= 0 /\ current_time + slot_duration <= limit

\* The loops get_available_slots runs, in order, each as [from, to]:
\* lines 171-180 when nothing is occupied, else lines 183-213.
RECURSIVE Between(_, _)
Between(occupied_slots, i) ==
    IF i > Len(occupied_slots) - 1 THEN <<>>
    ELSE <<[from |-> occupied_slots[i].end, to |-> occupied_slots[i + 1].start]>>
             \o Between(occupied_slots, i + 1)

\* the walks with the last one started where the last event starts
Walks_fromStart(occupied_slots, day_start, day_end) ==
    IF occupied_slots = <<>>
    THEN <<[from |-> day_start, to |-> day_end]>>
    ELSE (IF day_start < occupied_slots[1].start
          THEN <<[from |-> day_start, to |-> occupied_slots[1].start]>>
          ELSE <<>>)
         \o Between(occupied_slots, 1)
         \o <<[from |-> occupied_slots[Len(occupied_slots)].start, to |-> day_end]>>

Walks(occupied_slots, day_start, day_end) ==
    IF occupied_slots = <<>>
    THEN <<[from |-> day_start, to |-> day_end]>>
    ELSE (IF day_start < occupied_slots[1].start
          THEN <<[from |-> day_start, to |-> occupied_slots[1].start]>>
          ELSE <<>>)
         \o Between(occupied_slots, 1)
         \o <<[from |-> occupied_slots[Len(occupied_slots)].end, to |-> day_end]>>

RECURSIVE WalkAll(_, _, _)
WalkAll(walks, slot_duration, i) ==
    IF i > Len(walks) THEN <<>>
    ELSE EmitSlots(walks[i].from, slot_duration, walks[i].to)
             \o WalkAll(walks, slot_duration, i + 1)

\* The response: "200" with the slots, "400" for a bad date, "500" for an
\* uncaught ValueError, "runaway" when a loop never ends by its condition.
Response(status, slots) == [status |-> status, slots |-> slots]

\* the handler with the store read (lines 139-144) ahead of the date check
get_available_slots_readFirst(all_events, date, duration_minutes) ==
    IF \E i \in 1..Len(all_events) :
            \/ ~Parsable(all_events[i].start_time)
            \/ ~Parsable(all_events[i].end_time)
    THEN Response("500", <<>>)
    ELSE IF ~ValidDate(date) THEN Response("400", <<>>)
    ELSE LET target_date == date
             day_start == Combine(target_date, BusinessStartHour)
             day_end == Combine(target_date, BusinessEndHour)
             occupied_slots == SortByStart(DayEvents(all_events, target_date, 1))
             walks == Walks(occupied_slots, day_start, day_end)
         IN  IF \E i \in 1..Len(walks) :
                    Runaway(walks[i].from, duration_minutes, walks[i].to)
             THEN Response("runaway", <<>>)
             ELSE Response("200", WalkAll(walks, duration_minutes, 1))

\* lines 126-215
get_available_slots(all_events, date, duration_minutes) ==
    IF ~ValidDate(date) THEN Response("400", <<>>)
    ELSE IF \E i \in 1..Len(all_events) :
                \/ ~Parsable(all_events[i].start_time)
                \/ ~Parsable(all_events[i].end_time)
    THEN Response("500", <<>>)
    ELSE LET target_date == date
             day_start == Combine(target_date, BusinessStartHour)
             day_end == Combine(target_date, BusinessEndHour)
             occupied_slots == SortByStart(DayEvents(all_events, target_date, 1))
             walks == Walks(occupied_slots, day_start, day_end)
         IN  IF \E i \in 1..Len(walks) :
                    Runaway(walks[i].from, duration_minutes, walks[i].to)
             THEN Response("runaway", <<>>)
             ELSE Response("200", WalkAll(walks, duration_minutes, 1))

\* the wrapper without the truncation of line 224
suggest_alternative_times_all(all_events, date, duration_minutes) ==
    get_available_slots(all_events, date, duration_minutes)

\* lines 217-224
suggest_alternative_times(all_events, date, duration_minutes) ==
    LET available_slots == get_available_slots(all_events, date, duration_minutes)
        n == IF TopSuggestions < Len(available_slots.slots)
             THEN TopSuggestions ELSE Len(available_slots.slots)
    IN  Response(available_slots.status, SubSeq(available_slots.slots, 1, n))

(***************************************************************************)
(* Requests.  The inputs are drawn from small sets that hold the cases    *)
(* the scheduler distinguishes: events inside, before and across the      *)
(* business hours of day 1, overlapping, contained and inverted ones, one *)
(* across midnight, one on day 2, one whose start does not parse.         *)
(***************************************************************************)
EventIds == {"e1", "e2"}

Statuses == {"confirmed", "cancelled"}

Spans ==
    { <<Iso(1, 10, 0), Iso(1, 11, 0)>>,
      <<Iso(1, 9, 0), Iso(1, 12, 0)>>,
      <<Iso(1, 10, 0), Iso(1, 13, 0)>>,
      <<Iso(1, 7, 0), Iso(1, 8, 0)>>,
      <<Iso(1, 11, 0), Iso(1, 10, 0)>>,
      <<Iso(1, 11, 25), Iso(1, 12, 0)>>,
      <<Iso(1, 23, 0), Iso(2, 1, 0)>>,
      <<Iso(2, 10, 0), Iso(2, 11, 0)>> }

BadSpans == { <<Iso(1, 25, 0), Iso(1, 11, 0)>> }

Events ==
    { CalendarEvent(id, sp[1], sp[2], st) :
        id \in EventIds, sp \in Spans \cup BadSpans, st \in Statuses }

Dates == {1, 2}

Durations == {-30, 0, 30, 45, 200, 500}

\* the (date, duration_minutes) pairs of the slot requests: every date with
\* every duration, and the date string that is no date
SlotRequests == (Dates \X Durations) \cup {<<0, 30>>, <<0, 0>>}

NoEvent == CalendarEvent("", Iso(0, 0, 0), Iso(0, 0, 0), "")

NoRequest ==
    [op |-> "none", status |-> "none", event |-> NoEvent, date |-> 0, duration |-> 0,
     slots |-> <<>>]

\* a create, update or delete request and its HTTP status
Handled(op, status) ==
    [op |-> op, status |-> status, event |-> NoEvent, date |-> 0, duration |-> 0,
     slots |-> <<>>]

\* a slot request and its response
Answered(op, date, duration, response) ==
    [op |-> op, status |-> response.status, event |-> NoEvent, date |-> date,
     duration |-> duration, slots |-> response.slots]

\* a call of is_conflicting and its outcome
Checked(event, conflict) ==
    [op |-> "is_conflicting",
     status |-> IF conflict.raised THEN "ValueError"
                ELSE IF conflict.value THEN "True" ELSE "False",
     event |-> event, date |-> 0, duration |-> 0, slots |-> <<>>]

NoProcs == <<>>

\* the task server and the mail scanner are not running
NothingElsewhere ==
    /\ tasks = <<>>
    /\ tasks_file = <<>>
    /\ issued = {}
    /\ meeting_requests = <<>>
    /\ clock = 0

(***************************************************************************)
(* The handlers, one request at a time.                                    *)
(***************************************************************************)
\* The router hands the next request to its handler once the response to
\* the one before has gone out.
Idle == last = NoRequest

Reply ==
    /\ ~Idle
    /\ last' = NoRequest
    /\ UNCHANGED <<store, procs, elsewhere>>

\* the handler with append and save ahead of the conflict check
create_event_saveFirst(event) ==
    /\ Idle
    /\ Len(store) < MaxEvents
    /\ LET events == store
           conflict == is_conflicting(event, events)
       IN  /\ store' = Append(events, event)
           /\ last' = Handled("create", IF conflict.raised THEN "500"
                                        ELSE IF conflict.value THEN "400" ELSE "200")
    /\ UNCHANGED <<procs, elsewhere>>

\* lines 48-59
create_event(event) ==
    /\ Idle
    /\ Len(store) < MaxEvents
    /\ LET events == store
           conflict == is_conflicting(event, events)
       IN  IF conflict.raised
           THEN /\ last' = Handled("create", "500")
                /\ UNCHANGED store
           ELSE IF conflict.value
           THEN /\ last' = Handled("create", "400")
                /\ UNCHANGED store
           ELSE /\ store' = Append(events, event)
                /\ last' = Handled("create", "200")
    /\ UNCHANGED <<procs, elsewhere>>

\* lines 71-82
delete_event(event_id) ==
    /\ Idle
    /\ LET events == SelectSeq(store, LAMBDA event : event.id # event_id)
       IN  IF Len(events) = Len(store)
           THEN /\ last' = Handled("delete", "404")
                /\ UNCHANGED store
           ELSE /\ store' = events
                /\ last' = Handled("delete", "200")
    /\ UNCHANGED <<procs, elsewhere>>

\* lines 84-105
update_event(event_id, updated_event) ==
    /\ Idle
    /\ LET events == store
           found == {i \in 1..Len(events) : events[i].id = event_id}
       IN  IF found = {}
           THEN /\ last' = Handled("update", "404")
                /\ UNCHANGED store
           ELSE LET i == CHOOSE k \in found : \A j \in found : k <= j
                    other_events == SelectSeq(events, LAMBDA e : e.id # event_id)
                    conflict == is_conflicting(updated_event, other_events)
                IN  IF conflict.raised
                    THEN /\ last' = Handled("update", "500")
                         /\ UNCHANGED store
                    ELSE IF conflict.value
                    THEN /\ last' = Handled("update", "400")
                         /\ UNCHANGED store
                    ELSE /\ store' = [events EXCEPT ![i] = updated_event]
                         /\ last' = Handled("update", "200")
    /\ UNCHANGED <<procs, elsewhere>>

\* the slot request that saves the list it has filtered (lines 142-155)
\* back to the store
GetAvailableSlots_saving(date, duration_minutes) ==
    /\ Idle
    /\ last' = Answered("slots", date, duration_minutes,
                        get_available_slots(store, date, duration_minutes))
    /\ store' = SelectSeq(store, LAMBDA event : event.status # "cancelled")
    /\ UNCHANGED <<procs, elsewhere>>

\* lines 126-215, as a request
GetAvailableSlots(date, duration_minutes) ==
    /\ Idle
    /\ last' = Answered("slots", date, duration_minutes,
                        get_available_slots(store, date, duration_minutes))
    /\ UNCHANGED <<store, procs, elsewhere>>

\* lines 217-224, as a request
SuggestAlternativeTimes(date, duration_minutes) ==
    /\ Idle
    /\ last' = Answered("suggest", date, duration_minutes,
                        suggest_alternative_times(store, date, duration_minutes))
    /\ UNCHANGED <<store, procs, elsewhere>>

Init ==
    /\ store = <<>>
    /\ last = NoRequest
    /\ procs = NoProcs
    /\ NothingElsewhere

Next ==
    \/ \E event \in Events : create_event(event)
    \/ \E event_id \in EventIds : delete_event(event_id)
    \/ \E event_id \in EventIds, updated_event \in Events :
          update_event(event_id, updated_event)
    \/ \E rq \in SlotRequests : GetAvailableSlots(rq[1], rq[2])
    \/ \E rq \in SlotRequests : SuggestAlternativeTimes(rq[1], rq[2])
    \/ Reply

Spec == Init /\ [][Next]_vars

(***************************************************************************)
(* The two functions on their own: is_conflicting and get_available_slots *)
(* applied to any list of stored events.  SpecFn takes the lists of       *)
(* events whose timestamps parse (create_event and update_event save no   *)
(* other); SpecRaw also takes stored timestamps that do not parse.        *)
(***************************************************************************)
FnStatuses == {"confirmed", "tentative", "cancelled"}

FnSpans ==
    { <<Iso(1, 10, 0), Iso(1, 11, 0)>>,
      <<Iso(1, 11, 0), Iso(1, 12, 0)>>,
      <<Iso(1, 9, 0), Iso(1, 12, 0)>>,
      <<Iso(1, 10, 30), Iso(1, 11, 30)>>,
      <<Iso(1, 10, 30), Iso(1, 10, 30)>>,
      <<Iso(1, 11, 0), Iso(1, 10, 0)>>,
      <<Iso(1, 7, 0), Iso(1, 8, 0)>>,
      <<Iso(1, 23, 0), Iso(2, 10, 30)>> }

RawSpans ==
    { <<Iso(1, 10, 0), Iso(1, 11, 0)>>,
      <<Iso(1, 11, 0), Iso(1, 12, 0)>>,
      <<Iso(1, 10, 30), Iso(1, 11, 30)>>,
      <<Iso(1, 10, 0), Iso(1, 11, 60)>>,
      <<Iso(1, 24, 0), Iso(1, 11, 0)>> }

EventsOf(spans, id, statuses) ==
    { CalendarEvent(id, sp[1], sp[2], st) : sp \in spans, st \in statuses }

RECURSIVE Lists(_, _)
Lists(S, n) ==
    IF n = 0 THEN {<<>>}
    ELSE Lists(S, n - 1) \cup {Append(l, x) : l \in Lists(S, n - 1), x \in S}

\* lines 107-124, as a call on the stored list
IsConflicting(event) ==
    /\ Idle
    /\ last' = Checked(event, is_conflicting(event, store))
    /\ UNCHANGED <<store, procs, elsewhere>>

InitFn ==
    /\ store \in Lists(EventsOf(FnSpans, "e1", FnStatuses), MaxEvents)
    /\ last = NoRequest
    /\ procs = NoProcs
    /\ NothingElsewhere

NextFn ==
    \/ \E event \in EventsOf(FnSpans, "e2", {"confirmed"}) : IsConflicting(event)
    \/ \E rq \in SlotRequests : GetAvailableSlots(rq[1], rq[2])
    \/ \E rq \in SlotRequests : SuggestAlternativeTimes(rq[1], rq[2])
    \/ Reply

SpecFn == InitFn /\ [][NextFn]_vars

InitRaw ==
    /\ store \in Lists(EventsOf(RawSpans, "e1", FnStatuses), MaxEvents)
    /\ last = NoRequest
    /\ procs = NoProcs
    /\ NothingElsewhere

NextRaw ==
    \/ \E event \in EventsOf(RawSpans, "e2", {"confirmed"}) : IsConflicting(event)
    \/ \E rq \in SlotRequests : GetAvailableSlots(rq[1], rq[2])
    \/ \E rq \in SlotRequests : SuggestAlternativeTimes(rq[1], rq[2])
    \/ Reply

SpecRaw == InitRaw /\ [][NextRaw]_vars

(***************************************************************************)
(* create_event under concurrent requests.  FastAPI runs a plain `def`    *)
(* handler on a worker thread, so two requests interleave between the     *)
(* handler's statements: load (line 51), check (54-55), append (57),      *)
(* save (58).  Nothing in the handler or in get/save_calendar_events      *)
(* locks the stored list.                                                  *)
(***************************************************************************)
Procs == {1, 2}

ConcSpans ==
    { <<Iso(1, 10, 0), Iso(1, 11, 0)>>,
      <<Iso(1, 11, 0), Iso(1, 12, 0)>>,
      <<Iso(1, 10, 30), Iso(1, 11, 30)>> }

Request(pc, event, events, status) ==
    [pc |-> pc, event |-> event, events |-> events, status |-> status]

\* a create_event request arrives at worker p
Begin(p, event) ==
    /\ procs[p].pc = "idle"
    /\ procs' = [procs EXCEPT ![p] = Request("load", event, <<>>, "none")]
    /\ UNCHANGED <<store, last, elsewhere>>

\* line 51, lines 31-36
Load(p) ==
    /\ procs[p].pc = "load"
    /\ procs' = [procs EXCEPT ![p].pc = "check", ![p].events = store]
    /\ UNCHANGED <<store, last, elsewhere>>

\* lines 54-55
Check(p) ==
    /\ procs[p].pc = "check"
    /\ LET conflict == is_conflicting(procs[p].event, procs[p].events)
       IN  procs' = [procs EXCEPT
                        ![p].pc = IF conflict.raised \/ conflict.value
                                  THEN "done" ELSE "append",
                        ![p].status = IF conflict.raised THEN "500"
                                      ELSE IF conflict.value THEN "400" ELSE "none"]
    /\ UNCHANGED <<store, last, elsewhere>>

\* line 57
AppendEvent(p) ==
    /\ procs[p].pc = "append"
    /\ procs' = [procs EXCEPT ![p].pc = "save",
                              ![p].events = Append(procs[p].events, procs[p].event)]
    /\ UNCHANGED <<store, last, elsewhere>>

\* lines 58-59, lines 38-40
Save(p) ==
    /\ procs[p].pc = "save"
    /\ store' = procs[p].events
    /\ procs' = [procs EXCEPT ![p].pc = "done", ![p].status = "200"]
    /\ UNCHANGED <<last, elsewhere>>

InitConc ==
    /\ store = <<>>
    /\ last = NoRequest
    /\ procs = [p \in Procs |-> Request("idle", NoEvent, <<>>, "none")]
    /\ NothingElsewhere

NextConc ==
    \E p \in Procs :
        \/ \E event \in EventsOf(ConcSpans, "e1", {"confirmed"})
                           \cup EventsOf(ConcSpans, "e2", {"confirmed"}) : Begin(p, event)
        \/ Load(p)
        \/ Check(p)
        \/ AppendEvent(p)
        \/ Save(p)

SpecConc == InitConc /\ [][NextConc]_vars

(***************************************************************************)
(* The task server (backend/server.py): a module-level list `tasks`,      *)
(* loaded once from tasks.json when the module is imported and written    *)
(* back by save_tasks after every change.  HTTPServer handles one request *)
(* at a time.  A JSON object body is a function from the keys it carries  *)
(* to their values; the last segment of the path is a record that says    *)
(* whether int() accepts it.                                               *)
(***************************************************************************)
MaxId == 3

Task(id, title, status, priority, due_date, created_at) ==
    [id |-> id, title |-> title, status |-> status, priority |-> priority,
     due_date |-> due_date, created_at |-> created_at]

\* lines 19-22: the list load_tasks returns when there is no tasks.json
DefaultTasks ==
    << Task(1, "Complete project", "pending", "medium", "2025-04-15", "2025-03-26"),
       Task(2, "Read documentation", "completed", "low", "2025-03-30", "2025-03-26") >>

\* tasks.json does not exist
NoFile == << [id |-> 0] >>

\* lines 13-26
load_tasks(file) == IF file = NoFile THEN DefaultTasks ELSE file

\* dict.get(key, default)
Get(task_data, key, default) ==
    IF key \in DOMAIN task_data THEN task_data[key] ELSE default

\* the title test on the key alone: an empty title passes
NoTitle_keyOnly(task_data) == "title" \notin DOMAIN task_data

\* `not task_data.get("title")`: the key is missing (None) or its value is
\* the empty string
NoTitle(task_data) == Get(task_data, "title", "") = ""

Max(S) == CHOOSE n \in S : \A m \in S : m <= n

\* line 158
NextId(ts) ==
    IF ts = <<>> THEN 1 ELSE Max({ts[i].id : i \in DOMAIN ts}) + 1

\* next((i for i, t in enumerate(tasks) if t.get("id") == task_id), None);
\* 0 stands for None
IndexOf(ts, task_id) ==
    IF \E i \in DOMAIN ts : ts[i].id = task_id
    THEN CHOOSE i \in DOMAIN ts :
             /\ ts[i].id = task_id
             /\ \A j \in DOMAIN ts : ts[j].id = task_id => i <= j
    ELSE 0

\* the path's last segment: digits that int() turns into n, or text it
\* refuses with ValueError
Segment(n) == [numeric |-> TRUE, value |-> n]

BadSegment == [numeric |-> FALSE, value |-> 0]

Segments == {Segment(n) : n \in 1..MaxId} \cup {BadSegment}

EmptyBody == [key \in {} |-> ""]

PostBodies ==
    { "title" :> "Test Task",
      ("title" :> "Test Task") @@ ("status" :> "pending") @@ ("priority" :> "high")
          @@ ("due_date" :> "2025-05-01"),
      "status" :> "pending",
      ("title" :> "") @@ ("priority" :> "low"),
      EmptyBody }

PutBodies ==
    { ("status" :> "in-progress") @@ ("priority" :> "high"),
      ("title" :> "Renamed") @@ ("status" :> "invalid_status")
          @@ ("due_date" :> "2025-06-01"),
      EmptyBody }

\* datetime.now().strftime('%Y-%m-%d')
Today == {"2025-03-27"}

NoTask == [id |-> 0]

\* a request to the task server and its response: the status and, on 200,
\* the task written back
Served(op, segment, task_data, status, task) ==
    [op |-> op, segment |-> segment, task_data |-> task_data, status |-> status,
     task |-> task]

\* line 28-34
save_tasks(ts) == ts

\* lines 122-132
do_GET(segment) ==
    /\ IF ~segment.numeric
       THEN last' = Served("GET", segment, EmptyBody, "400", NoTask)
       ELSE LET task_id == segment.value
                task_index == IndexOf(tasks, task_id)
            IN  IF task_index # 0
                THEN last' = Served("GET", segment, EmptyBody, "200", tasks[task_index])
                ELSE last' = Served("GET", segment, EmptyBody, "404", NoTask)
    /\ UNCHANGED <<tasks, tasks_file, issued>>
    /\ UNCHANGED <<store, procs, meeting_requests, clock>>

\* lines 149-175
do_POST(task_data, today) ==
    /\ IF NoTitle(task_data)
       THEN /\ last' = Served("POST", BadSegment, task_data, "400", NoTask)
            /\ UNCHANGED <<tasks, tasks_file, issued>>
       ELSE LET next_id == NextId(tasks)
                task == Task(next_id,
                             Get(task_data, "title", ""),
                             Get(task_data, "status", "pending"),
                             Get(task_data, "priority", "medium"),
                             Get(task_data, "due_date", ""),
                             today)
            IN  /\ next_id <= MaxId
                /\ tasks' = Append(tasks, task)
                /\ tasks_file' = save_tasks(tasks')
                /\ issued' = issued \cup {next_id}
                /\ last' = Served("POST", BadSegment, task_data, "200", task)
    /\ UNCHANGED <<store, procs, meeting_requests, clock>>

\* the handler with the defaults of do_POST for the keys the body lacks
do_PUT_defaults(segment, task_data) ==
    /\ IF ~segment.numeric
       THEN /\ last' = Served("PUT", segment, task_data, "400", NoTask)
            /\ UNCHANGED <<tasks, tasks_file>>
       ELSE LET task_id == segment.value
                task_index == IndexOf(tasks, task_id)
            IN  IF task_index # 0
                THEN LET old == tasks[task_index]
                         new == [old EXCEPT
                                   !.title = Get(task_data, "title", ""),
                                   !.status = Get(task_data, "status", "pending"),
                                   !.priority = Get(task_data, "priority", "medium"),
                                   !.due_date = Get(task_data, "due_date", "")]
                     IN  /\ tasks' = [tasks EXCEPT ![task_index] = new]
                         /\ tasks_file' = save_tasks(tasks')
                         /\ last' = Served("PUT", segment, task_data, "200", new)
                ELSE /\ last' = Served("PUT", segment, task_data, "404", NoTask)
                     /\ UNCHANGED <<tasks, tasks_file>>
    /\ UNCHANGED issued
    /\ UNCHANGED <<store, procs, meeting_requests, clock>>

\* lines 184-218
do_PUT(segment, task_data) ==
    /\ IF ~segment.numeric
       THEN /\ last' = Served("PUT", segment, task_data, "400", NoTask)
            /\ UNCHANGED <<tasks, tasks_file>>
       ELSE LET task_id == segment.value
                task_index == IndexOf(tasks, task_id)
            IN  IF task_index # 0
                THEN LET old == tasks[task_index]
                         new == [old EXCEPT
                                   !.title = Get(task_data, "title", old.title),
                                   !.status = Get(task_data, "status", old.status),
                                   !.priority = Get(task_data, "priority", old.priority),
                                   !.due_date = Get(task_data, "due_date", old.due_date)]
                     IN  /\ tasks' = [tasks EXCEPT ![task_index] = new]
                         /\ tasks_file' = save_tasks(tasks')
                         /\ last' = Served("PUT", segment, task_data, "200", new)
                ELSE /\ last' = Served("PUT", segment, task_data, "404", NoTask)
                     /\ UNCHANGED <<tasks, tasks_file>>
    /\ UNCHANGED issued
    /\ UNCHANGED <<store, procs, meeting_requests, clock>>

\* the handler with tasks.pop() for tasks.pop(task_index): the last task of
\* the list goes, whatever its id
do_DELETE_popLast(segment) ==
    /\ IF ~segment.numeric
       THEN /\ last' = Served("DELETE", segment, EmptyBody, "400", NoTask)
            /\ UNCHANGED <<tasks, tasks_file>>
       ELSE LET task_id == segment.value
                task_index == IndexOf(tasks, task_id)
            IN  IF task_index # 0
                THEN /\ tasks' = SubSeq(tasks, 1, Len(tasks) - 1)
                     /\ tasks_file' = save_tasks(tasks')
                     /\ last' = Served("DELETE", segment, EmptyBody, "200", NoTask)
                ELSE /\ last' = Served("DELETE", segment, EmptyBody, "404", NoTask)
                     /\ UNCHANGED <<tasks, tasks_file>>
    /\ UNCHANGED issued
    /\ UNCHANGED <<store, procs, meeting_requests, clock>>

\* lines 220-244
do_DELETE(segment) ==
    /\ IF ~segment.numeric
       THEN /\ last' = Served("DELETE", segment, EmptyBody, "400", NoTask)
            /\ UNCHANGED <<tasks, tasks_file>>
       ELSE LET task_id == segment.value
                task_index == IndexOf(tasks, task_id)
            IN  IF task_index # 0
                THEN /\ tasks' = SubSeq(tasks, 1, task_index - 1)
                                    \o SubSeq(tasks, task_index + 1, Len(tasks))
                     /\ tasks_file' = save_tasks(tasks')
                     /\ last' = Served("DELETE", segment, EmptyBody, "200", NoTask)
                ELSE /\ last' = Served("DELETE", segment, EmptyBody, "404", NoTask)
                     /\ UNCHANGED <<tasks, tasks_file>>
    /\ UNCHANGED issued
    /\ UNCHANGED <<store, procs, meeting_requests, clock>>

\* line 37: the server starts without a tasks.json
InitTasks ==
    /\ tasks_file = NoFile
    /\ tasks = load_tasks(tasks_file)
    /\ issued = {}
    /\ last = NoRequest
    /\ store = <<>>
    /\ procs = NoProcs
    /\ meeting_requests = <<>>
    /\ clock = 0

NextTasks ==
    \/ \E segment \in Segments : do_GET(segment)
    \/ \E task_data \in PostBodies, today \in Today : do_POST(task_data, today)
    \/ \E segment \in Segments, task_data \in PutBodies : do_PUT(segment, task_data)
    \/ \E segment \in Segments : do_DELETE(segment)

SpecTasks == InitTasks /\ [][NextTasks]_vars

(***************************************************************************)
(* What the claims are stated with: timestamps compared field by field,   *)
(* times of day in minutes.                                               *)
(***************************************************************************)
Earlier(s, t) ==
    \/ s.day < t.day
    \/ s.day = t.day /\ s.hh < t.hh
    \/ s.day = t.day /\ s.hh = t.hh /\ s.mm < t.mm

StampsParse(e) == Parsable(e.start_time) /\ Parsable(e.end_time)

MinuteOfDay(s) == s.hh * 60 + s.mm

\* the events get_available_slots is to keep clear of on a date
BusyOn(events, date) ==
    { i \in DOMAIN events :
        /\ events[i].status # "cancelled"
        /\ events[i].start_time.day = date
        /\ events[i].end_time.day = date }

(***************************************************************************)
(* C1: is_conflicting(candidate, others), all timestamps parsable, is     *)
(* true exactly when some other event that is not cancelled has           *)
(* candidate.start < other.end and candidate.end > other.start; touching  *)
(* endpoints are no conflict.                                             *)
(***************************************************************************)
C1_ConflictIffOverlap ==
    (last.op = "is_conflicting" /\ StampsParse(last.event)
        /\ \A i \in DOMAIN store : StampsParse(store[i]))
    => last.status =
         IF \E i \in DOMAIN store :
                /\ store[i].status # "cancelled"
                /\ Earlier(last.event.start_time, store[i].end_time)
                /\ Earlier(store[i].start_time, last.event.end_time)
         THEN "True" ELSE "False"

\* is_conflicting has answered False for a candidate that starts where an
\* event that is not cancelled ends
C1_TouchingNoConflict ==
    /\ last.op = "is_conflicting"
    /\ last.status = "False"
    /\ \E i \in DOMAIN store :
          /\ store[i].status # "cancelled"
          /\ store[i].end_time = last.event.start_time
          /\ Earlier(store[i].start_time, store[i].end_time)
          /\ Earlier(last.event.start_time, last.event.end_time)


AbsMinute(s) == (s.day * 24 + s.hh) * 60 + s.mm

\* a slot request with a valid date and a positive duration was answered
SlotsAnswered ==
    /\ last.op = "slots"
    /\ last.status = "200"
    /\ last.duration > 0

(***************************************************************************)
(* C2: every slot get_available_slots returns is exactly duration_minutes *)
(* long and lies within 09:00-17:00 of the target date.                   *)
(***************************************************************************)
C2_SlotsExactWithinHours ==
    SlotsAnswered =>
        \A k \in DOMAIN last.slots :
            LET slot == last.slots[k] IN
            /\ AbsMinute(slot.end) - AbsMinute(slot.start) = last.duration
            /\ slot.start.day = last.date
            /\ slot.end.day = last.date
            /\ MinuteOfDay(slot.start) >= 9 * 60
            /\ MinuteOfDay(slot.end) <= 17 * 60

(***************************************************************************)
(* C3: no two slots get_available_slots returns overlap, and no returned  *)
(* slot overlaps the interval of an event of the target date that is not  *)
(* cancelled, also when those events overlap or contain one another.      *)
(***************************************************************************)
C3_SlotsDisjointAndFree ==
    SlotsAnswered =>
        /\ \A j, k \in DOMAIN last.slots :
              j # k => ~(/\ Earlier(last.slots[j].start, last.slots[k].end)
                         /\ Earlier(last.slots[k].start, last.slots[j].end))
        /\ \A k \in DOMAIN last.slots : \A i \in BusyOn(store, last.date) :
              ~(/\ Earlier(last.slots[k].start, store[i].end_time)
                /\ Earlier(store[i].start_time, last.slots[k].end))

(***************************************************************************)
(* C4: for every maximal span G of 09:00-17:00 of the target date that no *)
(* event of that date that is not cancelled covers, get_available_slots   *)
(* returns exactly the slots [G.start + k*d, G.start + (k+1)*d) for       *)
(* k = 0 .. floor(|G|/d) - 1, and no other slot.                          *)
(***************************************************************************)
FreeMinute(events, date, m) ==
    /\ m >= (date * 24 + 9) * 60
    /\ m < (date * 24 + 17) * 60
    /\ \A i \in BusyOn(events, date) :
          ~(AbsMinute(events[i].start_time) <= m /\ m < AbsMinute(events[i].end_time))

GapStarts(events, date) ==
    { g \in (date * 24 + 9) * 60 .. (date * 24 + 17) * 60 - 1 :
        FreeMinute(events, date, g) /\ ~FreeMinute(events, date, g - 1) }

GapEnd(events, date, g) ==
    CHOOSE h \in g + 1 .. (date * 24 + 17) * 60 :
        /\ ~FreeMinute(events, date, h)
        /\ \A m \in g .. h - 1 : FreeMinute(events, date, m)

GapSlots(events, date, d) ==
    UNION { { <<g + k * d, g + (k + 1) * d>> :
                k \in 0 .. ((GapEnd(events, date, g) - g) \div d) - 1 } :
            g \in GapStarts(events, date) }

\* C4: the slots returned are exactly the slots of the maximal free spans
C4_SlotsAreGapSlots ==
    SlotsAnswered =>
        /\ { <<AbsMinute(last.slots[k].start), AbsMinute(last.slots[k].end)>> :
               k \in DOMAIN last.slots } = GapSlots(store, last.date, last.duration)
        /\ Len(last.slots) = Cardinality(GapSlots(store, last.date, last.duration))

(***************************************************************************)
(* C5: a cancelled event stays in the store, and is_conflicting and       *)
(* get_available_slots answer as they would on the store without it.      *)
(***************************************************************************)
RemoveAt(events, i) == SubSeq(events, 1, i - 1) \o SubSeq(events, i + 1, Len(events))

\* C5: with a cancelled event in the store, both functions answer as on the
\* store without it
C5_CancelledAsRemoved ==
    \A i \in DOMAIN store :
        store[i].status = "cancelled" =>
            /\ last.op = "is_conflicting" =>
                  last = Checked(last.event, is_conflicting(last.event, RemoveAt(store, i)))
            /\ last.op = "slots" =>
                  last = Answered("slots", last.date, last.duration,
                                  get_available_slots(RemoveAt(store, i), last.date,
                                                      last.duration))

\* the store holds a cancelled 10:00-11:00 event of day 1 and nothing else,
\* and the 30-minute slots of day 1 are the 16 of an empty day
C5_CancelledIgnored ==
    /\ last.op = "slots" /\ last.status = "200"
    /\ last.date = 1 /\ last.duration = 30
    /\ Len(store) = 1
    /\ store[1].status = "cancelled"
    /\ store[1].start_time = Iso(1, 10, 0) /\ store[1].end_time = Iso(1, 11, 0)
    /\ Len(last.slots) = 16

(***************************************************************************)
(* C6: get_available_slots and suggest_alternative_times with             *)
(* duration_minutes <= 0 are rejected with an invalid-duration error      *)
(* before any computation, and return no slots.                           *)
(***************************************************************************)
C6_BadDurationRejected ==
    (last.op \in {"slots", "suggest"} /\ last.duration <= 0)
    => (last.status = "400" /\ last.slots = <<>>)

(***************************************************************************)
(* C7: when two create_event requests for events that do not conflict run *)
(* concurrently and both have returned success, both events are in the    *)
(* store.                                                                 *)
(***************************************************************************)
Stored(event) == \E i \in DOMAIN store : store[i] = event

\* C7: two concurrent creates that both succeeded are both stored
C7_NoLostCreate ==
    \A p, q \in Procs :
        (/\ p # q
         /\ procs[p].pc = "done" /\ procs[p].status = "200"
         /\ procs[q].pc = "done" /\ procs[q].status = "200"
         /\ ~(/\ Earlier(procs[p].event.start_time, procs[q].event.end_time)
              /\ Earlier(procs[q].event.start_time, procs[p].event.end_time)))
        => (Stored(procs[p].event) /\ Stored(procs[q].event))

(***************************************************************************)
(* C8: when a timestamp of the candidate or of any other event passed to  *)
(* is_conflicting, or of any stored event read by get_available_slots,    *)
(* does not parse, the operation fails with an error: no malformed event  *)
(* is skipped.                                                            *)
(***************************************************************************)
C8_UnparsableFails ==
    /\ (last.op = "is_conflicting"
          /\ (~StampsParse(last.event) \/ \E i \in DOMAIN store : ~StampsParse(store[i])))
       => last.status = "ValueError"
    /\ (last.op = "slots" /\ \E i \in DOMAIN store : ~StampsParse(store[i]))
       => last.status \in {"400", "500"}

(***************************************************************************)
(* C9: with exactly one confirmed event 10:00-11:00 on the target date    *)
(* and duration 30, get_available_slots returns 09:00-09:30, 09:30-10:00, *)
(* then 11:00-11:30 through 16:30-17:00, none overlapping 10:00-11:00:    *)
(* 11 slots by the claim, 14 by the code (2 before the event, 12 after).  *)
(***************************************************************************)
\* the k-th half hour of a date, counted from midnight
HalfHour(date, k) ==
    [start |-> Iso(date, (k * 30) \div 60, (k * 30) % 60),
     end |-> Iso(date, ((k + 1) * 30) \div 60, ((k + 1) * 30) % 60)]

OneMeeting ==
    /\ last.op = "slots"
    /\ last.duration = 30
    /\ \E i \in DOMAIN store :
          /\ BusyOn(store, last.date) = {i}
          /\ store[i].status = "confirmed"
          /\ store[i].start_time = Iso(last.date, 10, 0)
          /\ store[i].end_time = Iso(last.date, 11, 0)

\* 09:00-09:30, 09:30-10:00, then the half hours from 11:00 on, the last
\* one 16:30-17:00: n slots, none overlapping 10:00-11:00
MeetingSlots(n) ==
    /\ last.status = "200"
    /\ Len(last.slots) = n
    /\ last.slots[1] = HalfHour(last.date, 18)
    /\ last.slots[2] = HalfHour(last.date, 19)
    /\ \A k \in 3..Len(last.slots) : last.slots[k] = HalfHour(last.date, 19 + k)
    /\ last.slots[Len(last.slots)] = HalfHour(last.date, 33)
    /\ \A k \in DOMAIN last.slots :
          ~(/\ Earlier(last.slots[k].start, Iso(last.date, 11, 0))
            /\ Earlier(Iso(last.date, 10, 0), last.slots[k].end))

\* C9 as written: those slots, 11 of them
C9_OneMeetingElevenSlots == OneMeeting => MeetingSlots(11)

\* C9 as amended: the same slots, 14 of them
C9_OneMeetingFourteenSlots == OneMeeting => MeetingSlots(14)

\* the store is that one event and the 30-minute slots of its day were
\* asked for
C9_OneMeetingAsked == OneMeeting /\ Len(store) = 1 /\ last.status = "200"

(***************************************************************************)
(* C10: when no event that is not cancelled lies on the target date,      *)
(* get_available_slots with duration d returns exactly floor(480/d)       *)
(* back-to-back slots starting at 09:00.                                  *)
(***************************************************************************)
FreeDay ==
    /\ last.op = "slots"
    /\ last.date >= 1
    /\ last.duration >= 1
    /\ BusyOn(store, last.date) = {}

C10_FreeDayWholeWindow ==
    FreeDay =>
        /\ last.status = "200"
        /\ Len(last.slots) = 480 \div last.duration
        /\ \A k \in DOMAIN last.slots :
              LET from == 9 * 60 + (k - 1) * last.duration
                  to == from + last.duration
              IN  /\ last.slots[k].start = Iso(last.date, from \div 60, from % 60)
                  /\ last.slots[k].end = Iso(last.date, to \div 60, to % 60)

\* 16 slots of 30 minutes on a day whose only events are cancelled or lie
\* on other dates
C10_SixteenSlots ==
    /\ FreeDay
    /\ last.duration = 30
    /\ Len(last.slots) = 16
    /\ Len(store) >= 1

(***************************************************************************)
(* C11: get_available_slots emits no partial trailing slot: every slot is *)
(* a whole duration_minutes long and lies, on the grid that starts at the *)
(* gap's lower bound, inside one of the gaps the code walks, so a gap     *)
(* shorter than the duration (the 25 minutes between 11:00 and 11:25,     *)
(* with 30 or 45 minutes asked) contributes no slot.                      *)
(***************************************************************************)
\* the gaps walked for the answered request
WalkedGaps ==
    Walks(SortByStart(DayEvents(store, last.date, 1)),
          Combine(last.date, BusinessStartHour), Combine(last.date, BusinessEndHour))

\* events 10:00-11:00 and 11:25-12:00, neither cancelled, are the busy
\* events of the date: the gap between them is 25 minutes
ShortGap ==
    /\ SlotsAnswered
    /\ last.duration > 25
    /\ \E i, j \in BusyOn(store, last.date) :
          /\ BusyOn(store, last.date) = {i, j}
          /\ store[i].start_time = Iso(last.date, 10, 0)
          /\ store[i].end_time = Iso(last.date, 11, 0)
          /\ store[j].start_time = Iso(last.date, 11, 25)
          /\ store[j].end_time = Iso(last.date, 12, 0)

C11_NoPartialTrailingSlot ==
    SlotsAnswered =>
        LET gaps == WalkedGaps IN
        /\ \A k \in DOMAIN last.slots :
              LET from == AbsMinute(last.slots[k].start)
                  to == AbsMinute(last.slots[k].end)
              IN  /\ to - from = last.duration
                  /\ \E g \in DOMAIN gaps :
                        /\ gaps[g].from <= from
                        /\ to <= gaps[g].to
                        /\ (from - gaps[g].from) % last.duration = 0
        /\ ShortGap =>
              \A k \in DOMAIN last.slots :
                  ~(/\ Earlier(last.slots[k].start, Iso(last.date, 11, 25))
                    /\ Earlier(Iso(last.date, 11, 0), last.slots[k].end))

\* 45 minutes asked with the 25-minute gap in the store: slots before 10:00
\* and after 12:00 only
C11_ShortGapAsked == ShortGap /\ last.duration = 45 /\ Len(last.slots) = 7

(***************************************************************************)
(* C12: with the overlapping busy events 09:00-12:00 and 10:00-13:00 on   *)
(* the target date, every slot get_available_slots returns lies inside    *)
(* 13:00-17:00; none starts inside 10:00-12:00 or 12:00-13:00.            *)
(***************************************************************************)
OverlappingPair ==
    /\ last.op = "slots"
    /\ last.date >= 1
    /\ last.duration > 0
    /\ \E i, j \in BusyOn(store, last.date) :
          /\ BusyOn(store, last.date) = {i, j}
          /\ store[i].start_time = Iso(last.date, 9, 0)
          /\ store[i].end_time = Iso(last.date, 12, 0)
          /\ store[j].start_time = Iso(last.date, 10, 0)
          /\ store[j].end_time = Iso(last.date, 13, 0)

C12_OverlappingPairAfterBoth ==
    OverlappingPair =>
        /\ last.status = "200"
        /\ Len(last.slots) = 240 \div last.duration
        /\ \A k \in DOMAIN last.slots :
              /\ ~Earlier(last.slots[k].start, Iso(last.date, 13, 0))
              /\ ~Earlier(Iso(last.date, 17, 0), last.slots[k].end)

\* the later event stored first, 30 minutes asked: the 8 half hours from
\* 13:00 on
C12_OverlappingPairAsked ==
    /\ OverlappingPair
    /\ Earlier(store[2].start_time, store[1].start_time)
    /\ last.duration = 30
    /\ Len(last.slots) = 8

(***************************************************************************)
(* C13: an event whose start or end does not fall on the target date (it  *)
(* spans midnight or lies on another date) is invisible to                *)
(* get_available_slots: the response is the one the store without that    *)
(* event gets.                                                            *)
(***************************************************************************)
OffDate(event, date) == event.start_time.day # date \/ event.end_time.day # date

C13_OffDateAsRemoved ==
    last.op = "slots" =>
        \A i \in DOMAIN store :
            OffDate(store[i], last.date) =>
                last = Answered("slots", last.date, last.duration,
                                get_available_slots(RemoveAt(store, i), last.date,
                                                    last.duration))

\* a confirmed event from 23:00 of the target date into the next day, and
\* a confirmed event of the next day: the 16 half hours are returned
C13_OffDateIgnored ==
    /\ last.op = "slots"
    /\ last.duration = 30
    /\ Len(last.slots) = 16
    /\ Len(store) = 2
    /\ \A i \in DOMAIN store : store[i].status = "confirmed"
    /\ \E i \in DOMAIN store :
          store[i].start_time.day = last.date /\ store[i].end_time.day # last.date
    /\ \E i \in DOMAIN store : store[i].start_time.day # last.date

(***************************************************************************)
(* C14: get_available_slots returns the slots in chronological order:     *)
(* each slot starts at or after the end of the slot before it, whatever   *)
(* the store holds and whatever positive duration is asked.               *)
(***************************************************************************)
C14_SlotsChronological ==
    SlotsAnswered =>
        \A k \in DOMAIN last.slots :
            k > 1 => ~Earlier(last.slots[k].start, last.slots[k - 1].end)

(***************************************************************************)
(* C15: a date string that is not a valid YYYY-MM-DD date is rejected     *)
(* with the invalid-date error (HTTP 400) before the event store is read  *)
(* or any slot is produced: whatever the store holds, events that cannot  *)
(* be read included, and whatever the duration.                           *)
(***************************************************************************)
InvalidDateAsked == last.op = "slots" /\ last.date < 1

C15_InvalidDateRejected ==
    InvalidDateAsked => last.status = "400" /\ last.slots = <<>>

\* rejected with a stored event whose timestamp does not parse, which a
\* read of the store would have failed on
C15_RejectedBeforeRead ==
    /\ InvalidDateAsked
    /\ last.status = "400"
    /\ \E i \in DOMAIN store : ~StampsParse(store[i])

(***************************************************************************)
(* C16: suggest_alternative_times(date, d) returns exactly the first      *)
(* min(3, n) entries, in the same order, of the n-entry list              *)
(* get_available_slots(date, d) returns on the same store.                *)
(***************************************************************************)
C16_SuggestIsPrefix ==
    last.op = "suggest" =>
        LET full == get_available_slots(store, last.date, last.duration)
            n == Len(full.slots)
        IN  /\ last.status = full.status
            /\ Len(last.slots) = IF n < 3 THEN n ELSE 3
            /\ \A k \in DOMAIN last.slots : last.slots[k] = full.slots[k]

\* three suggestions out of a longer list, on a day with a busy event
C16_ThreeOfMore ==
    /\ last.op = "suggest"
    /\ last.status = "200"
    /\ Len(last.slots) = 3
    /\ Len(get_available_slots(store, last.date, last.duration).slots) > 3
    /\ BusyOn(store, last.date) # {}

(***************************************************************************)
(* C17: is_conflicting, get_available_slots and suggest_alternative_times *)
(* have no side effects: the stored event list is the same before and     *)
(* after each of them, whatever they answer (a list, True or False, or an *)
(* error).                                                                *)
(***************************************************************************)
ReadOnlyOps == {"is_conflicting", "slots", "suggest"}

C17_ReadOnly ==
    [][(last'.op \in ReadOnlyOps /\ last' # last) => store' = store]_vars

\* is_conflicting has failed on a timestamp that does not parse, the store
\* holding MaxEvents events
C17_FailedOnStore ==
    /\ Len(store) = MaxEvents
    /\ last.op = "is_conflicting"
    /\ last.status = "ValueError"

(***************************************************************************)
(* C19: event ids are unique: after any sequence of create_event,         *)
(* update_event and delete_event on a store that starts empty, no two     *)
(* stored events have the same id.                                        *)
(***************************************************************************)
C19_UniqueIds ==
    \A i, j \in DOMAIN store : store[i].id = store[j].id => i = j

(***************************************************************************)
(* C20: every stored event has start_time < end_time: create_event and    *)
(* update_event reject (or normalize) an event that starts at or after    *)
(* its end.                                                               *)
(***************************************************************************)
C20_StartBeforeEnd ==
    \A i \in DOMAIN store : Earlier(store[i].start_time, store[i].end_time)

(***************************************************************************)
(* C21: task server: after DELETE /api/tasks/{id} has answered 200 no     *)
(* task with that id remains in the task list, and a GET /api/tasks/{id}  *)
(* that follows it immediately answers 404.                               *)
(***************************************************************************)
Deleted(response) == response.op = "DELETE" /\ response.status = "200"

C21_DeletedIsGone ==
    [][/\ Deleted(last') =>
              \A i \in DOMAIN tasks' : tasks'[i].id # last'.segment.value
       /\ (Deleted(last) /\ last'.op = "GET" /\ last'.segment = last.segment) =>
              last'.status = "404"]_vars

\* a task the server created itself was deleted, and other tasks remain
C21_DeletedOne ==
    /\ Deleted(last)
    /\ last.segment.value \in issued
    /\ tasks # <<>>

(***************************************************************************)
(* C22: task server: PUT /api/tasks/{id} on an existing task sets exactly *)
(* the fields the body supplies among title, status, priority and         *)
(* due_date; the fields it does not supply, the id and created_at keep    *)
(* their values, and every other task of the list is unchanged.           *)
(***************************************************************************)
UpdatableKeys == {"title", "status", "priority", "due_date"}

\* a PUT with a numeric id arrives while a task with that id is listed
PutOnExisting ==
    /\ last'.op = "PUT"
    /\ last'.segment.numeric
    /\ \E j \in DOMAIN tasks : tasks[j].id = last'.segment.value

TaskStatuses == {"pending", "in-progress", "completed"}

C23_InvalidStatusRefused ==
    (/\ last.op = "PUT"
     /\ "status" \in DOMAIN last.task_data
     /\ last.task_data["status"] \notin TaskStatuses)
        => last.status # "200"

(***************************************************************************)
(* C24: task server: a POST /api/tasks whose body has no title, or an     *)
(* empty one, is rejected with a response that is not 200 and leaves the  *)
(* task list as it was: no task is appended and nothing is saved.         *)
(***************************************************************************)
Untitled(task_data) ==
    "title" \notin DOMAIN task_data \/ task_data["title"] = ""

C24_UntitledPostRejected ==
    [][(last'.op = "POST" /\ Untitled(last'.task_data)) =>
          /\ last'.status # "200"
          /\ tasks' = tasks
          /\ tasks_file' = tasks_file
          /\ issued' = issued]_vars

\* a body with an empty title was rejected, and tasks.json was never
\* written
C24_EmptyTitleRejected ==
    /\ last.op = "POST"
    /\ "title" \in DOMAIN last.task_data
    /\ last.task_data["title"] = ""
    /\ last.status = "400"
    /\ tasks_file = NoFile

(***************************************************************************)
(* C25: from an empty store, after any sequence of create_event,          *)
(* update_event and delete_event calls run one at a time, accepted or     *)
(* rejected, no two distinct events of the store that are not cancelled   *)
(* overlap (a.start < b.end and a.end > b.start).                         *)
(***************************************************************************)
C25_NoStoredOverlap ==
    \A i, j \in DOMAIN store :
        (/\ i # j
         /\ store[i].status # "cancelled"
         /\ store[j].status # "cancelled")
            => ~(/\ Earlier(store[i].start_time, store[j].end_time)
                 /\ Earlier(store[j].start_time, store[i].end_time))

(***************************************************************************)
(* C26: the result of get_available_slots depends on which events are     *)
(* stored, not on their order in the store: a store with the same events  *)
(* in another order gives the same slot list for the same date and        *)
(* duration, also when several events start at the same time.             *)
(***************************************************************************)
\* the rearrangements of a list
Reorderings(events) ==
    { [i \in DOMAIN events |-> events[p[i]]] :
        p \in { q \in [DOMAIN events -> DOMAIN events] :
                  \A i, j \in DOMAIN events : q[i] = q[j] => i = j } }

C26_OrderIndependent ==
    last.op = "slots" =>
        \A events \in Reorderings(store) :
            last = Answered("slots", last.date, last.duration,
                            get_available_slots(events, last.date, last.duration))

(***************************************************************************)
(* C27: for every valid date, every stored list of events with parsable   *)
(* timestamps and every duration_minutes >= 1, get_available_slots        *)
(* terminates: each loop moves current_time forward by the duration       *)
(* toward a fixed limit, and the call returns a finite list.              *)
(***************************************************************************)
PositiveDurationAsked ==
    /\ last.op = "slots"
    /\ last.date >= 1
    /\ last.duration >= 1

\* The call returns (status 200); each slot is one step of a loop, the
\* duration long; a loop runs inside one day, so the list is no longer than
\* the loops (one more than the busy events) times the minutes of a day
\* over the duration.
C27_Terminates ==
    PositiveDurationAsked =>
        /\ last.status = "200"
        /\ \A k \in DOMAIN last.slots :
              AbsMinute(last.slots[k].end) - AbsMinute(last.slots[k].start)
                  = last.duration
        /\ Len(last.slots) * last.duration
              <= (Cardinality(BusyOn(store, last.date)) + 1) * 1440

\* returned on a store of MaxEvents busy events, one of them inverted
C27_ReturnedOnInverted ==
    /\ PositiveDurationAsked
    /\ last.status = "200"
    /\ Cardinality(BusyOn(store, last.date)) = MaxEvents
    /\ \E i \in DOMAIN store : Earlier(store[i].end_time, store[i].start_time)
    /\ Len(last.slots) > 16

(***************************************************************************)
(* C28: whenever create_event or update_event is rejected for a conflict  *)
(* (400), or update_event or delete_event because the id is not found     *)
(* (404), the stored event list is what it was before the call: nothing   *)
(* is saved on a rejected path.                                           *)
(***************************************************************************)
Rejected(response) ==
    \/ response.op \in {"create", "update"} /\ response.status = "400"
    \/ response.op \in {"update", "delete"} /\ response.status = "404"

C28_RejectedLeavesStore == [][Rejected(last') => store' = store]_vars

\* an update was rejected for a conflict on a store of MaxEvents events
C28_UpdateRejected ==
    /\ last.op = "update"
    /\ last.status = "400"
    /\ Len(store) = MaxEvents

(***************************************************************************)
(* C29: task server: task ids are never reused: across any sequence of    *)
(* POST, PUT and DELETE requests the id a POST assigns differs from the   *)
(* id every earlier POST assigned, ids of tasks deleted since included.   *)
(***************************************************************************)
C29_IdsNeverReused ==
    [][(last'.op = "POST" /\ last'.status = "200") => last'.task.id \notin issued]_vars

(***************************************************************************)
(* The mail scanner (gmail_scanner/__init__.py).  scan_emails hands the    *)
(* messages it listed to process_meeting_requests as a background task;    *)
(* the task has no await in it, so one run is one step.  An email is kept  *)
(* by its message_id and its contains_meeting_request flag, a stored       *)
(* request by its message_id, status and created_at; clock is what         *)
(* datetime.now() reads.  Two things outside the program decide a run: the *)
(* read of the stored list may raise, and the code goes on with an empty   *)
(* list (lines 233-236); the fetch of a message may raise, and the outer   *)
(* handler drops the run before anything is saved (lines 248, 289-290).    *)
(***************************************************************************)
MaxClock == 4

MessageIds == {"m1", "m2"}

EmailMessage(message_id, contains_meeting_request) ==
    [message_id |-> message_id, contains_meeting_request |-> contains_meeting_request]

Emails == {EmailMessage(m, c) : m \in MessageIds, c \in BOOLEAN}

\* scan_emails starts a run only for a non-empty list of emails (line 220)
EmailLists == {<<e>> : e \in Emails} \cup {<<e, f>> : e \in Emails, f \in Emails}

new_request(email, now) ==
    [message_id |-> email.message_id, status |-> "pending", created_at |-> now]

\* line 244: any(req.get('message_id') == email.message_id for req in existing_requests)
AlreadyProcessed(existing_requests, message_id) ==
    \E i \in DOMAIN existing_requests : existing_requests[i].message_id = message_id

\* the loop of lines 239-283 over the emails still to be looked at
RECURSIVE ProcessEach(_, _, _)
ProcessEach(emails, existing_requests, now) ==
    IF emails = <<>> THEN existing_requests
    ELSE LET email == Head(emails) IN
         IF ~email.contains_meeting_request
         THEN ProcessEach(Tail(emails), existing_requests, now)
         ELSE IF AlreadyProcessed(existing_requests, email.message_id)
         THEN ProcessEach(Tail(emails), existing_requests, now)
         ELSE ProcessEach(Tail(emails),
                          Append(existing_requests, new_request(email, now)), now + 1)

\* the messages the loop asks the mail service for (line 248)
Fetched(emails, existing_requests) ==
    {emails[k].message_id : k \in {j \in DOMAIN emails :
        /\ emails[j].contains_meeting_request
        /\ ~AlreadyProcessed(existing_requests, emails[j].message_id)}}

Processed(emails, readable, unfetchable) ==
    [op |-> "process", emails |-> emails, readable |-> readable,
     unfetchable |-> unfetchable]

process_meeting_requests(emails, readable, unfetchable) ==
    LET existing_requests == IF readable THEN meeting_requests ELSE <<>>
        raised == Fetched(emails, existing_requests) \cap unfetchable # {}
        updated == ProcessEach(emails, existing_requests, clock)
    IN  /\ clock + Len(emails) <= MaxClock
        /\ meeting_requests' = IF ~raised /\ updated # <<>> THEN updated
                               ELSE meeting_requests
        /\ clock' = clock + Len(emails)
        /\ last' = Processed(emails, readable, unfetchable)
        /\ UNCHANGED <<store, procs, tasks, tasks_file, issued>>

InitScan ==
    /\ meeting_requests = <<>>
    /\ clock = 0
    /\ last = NoRequest
    /\ store = <<>>
    /\ procs = NoProcs
    /\ tasks = <<>>
    /\ tasks_file = <<>>
    /\ issued = {}

NextScan ==
    \E emails \in EmailLists, readable \in BOOLEAN, unfetchable \in SUBSET MessageIds :
        process_meeting_requests(emails, readable, unfetchable)

SpecScan == InitScan /\ [][NextScan]_vars

(***************************************************************************)
(* C30: mail scanner: after any sequence of process_meeting_requests runs, *)
(* the same email given twice in one run or across runs included, the      *)
(* stored meeting_requests list holds at most one entry for each           *)
(* message_id, and a run given a message that is already stored leaves     *)
(* the entry stored for it as it was.                                      *)
(***************************************************************************)
OneEntryPerMessage(requests) ==
    \A i, j \in DOMAIN requests :
        requests[i].message_id = requests[j].message_id => i = j

StoredEntryKept(emails) ==
    \A k \in DOMAIN emails : \A i \in DOMAIN meeting_requests :
        meeting_requests[i].message_id = emails[k].message_id
            => \E j \in DOMAIN meeting_requests' : meeting_requests'[j] = meeting_requests[i]

C30_OneUnchangedEntry ==
    [][last'.op = "process" =>
        /\ OneEntryPerMessage(meeting_requests')
        /\ StoredEntryKept(last'.emails)]_vars

====
